---- MODULE Spec2Model ----
(***************************************************************************)
(* A model of gocarina: the tile normaliser (bw_image.go, image.go, the    *)
(* Tile half of network.go) and the feed-forward network (network.go).     *)
(*                                                                         *)
(* float64 values are modelled as fixed-point integers: the integer v      *)
(* stands for the real v / Unit.  Products are rescaled by Unit.  Go       *)
(* slices are 0-based; the sequences here are 1-based, so index i of the   *)
(* source is index i + 1 here.                                             *)
(***************************************************************************)
EXTENDS Integers, Sequences, FiniteSets, TLC

\* ----------------------------------------------------------------- bounds
Unit == 4096            \* fixed-point resolution of a float64
MaxTile == 2            \* NewNetwork(w, h) is called with w, h in 1..MaxTile
MaxSeed == 1            \* seeds of the random source
MaxCalls == 2           \* calls made on the networks in one run
MaxRune == 300          \* code points handed to the codec
MaxW == 10              \* width of a tile handed to NewTile
MaxH == 2               \* height of a tile handed to NewTile
MaxInk == 2             \* pixels of a tile that are not white
MaxBorder == 1          \* border handed to BoundingBox

\* ------------------------------------------------------ program constants
NumOutputs == 8
MinBoundingBoxPercent == 25     \* 0.25, in hundredths
TileTargetWidth == 12
TileTargetHeight == 12

VARIABLES
    n,          \* the Network built by NewNetwork
    file,       \* what Save wrote (NoFile before the first Save)
    restored,   \* the Network RestoreNetwork returned (NoNet before)
    status,     \* "ok", or how the process ended: "fatal" (log.Fatalf), "panic"
    call,       \* the call that produced this state: operation and arguments
    calls,      \* number of calls made so far
    result,     \* what the last Recognize returned
    codec,      \* a code point, its encoding and what the encoding decodes to
    tile        \* a tile image and what BoundingBox and NewTile made of it

vars == <<n, file, restored, status, call, calls, result, codec, tile>>

netVars == <<n, file, restored, status, call, calls, result>>

NoFile == [none |-> TRUE]
NoNet == [none |-> TRUE]
NoCodec == [stage |-> "none"]
NoTile == [stage |-> "none"]

\* --------------------------------------------------------------- helpers
Abs(x) == IF x < 0 THEN -x ELSE x

\* float64 product of two fixed-point values
Mul(a, b) == (a * b) \div Unit

RECURSIVE SumTo(_, _)
SumTo(f, k) == IF k = 0 THEN 0 ELSE f[k] + SumTo(f, k - 1)

SeqSum(s) == SumTo(s, Len(s))

\* ------------------------------------------------------------------ images
\* An image.Image: its Bounds() (min corner, width, height) and its pixels.
\* A colour is a grey level Y (r = g = b) with an alpha A, both 8-bit.
Black == [Y |-> 0, A |-> 255]        \* color.Black
White == [Y |-> 255, A |-> 255]      \* color.White
Dark == [Y |-> 100, A |-> 255]
Light == [Y |-> 200, A |-> 255]
Transparent == [Y |-> 0, A |-> 0]    \* the zero color.RGBA

\* An image also carries `zero`, the colour its type answers outside the
\* bounds: color.Gray{} for an image.Gray, color.RGBA{} for an image.RGBA.
InBounds(img, x, y) ==
    /\ x >= img.minX /\ x < img.minX + img.w
    /\ y >= img.minY /\ y < img.minY + img.h

At(img, x, y) == IF InBounds(img, x, y) THEN img.pix[<<x, y>>] ELSE img.zero

IsBlack(c) == c = Black

pixelToBit(c) == IF IsBlack(c) THEN 0 ELSE 1

\* color.Palette.Index's distance between two 8-bit channel levels: the
\* channels are 16-bit (level * 257) and the squared difference is shifted
\* right by 2; (257 d)^2 >> 2 = 16512 d^2 + (d^2 >> 2)
sqDiff(x, y) == LET d == x - y IN 16512 * d * d + (d * d) \div 4

\* bwPalette.Convert(c): the nearest of <<Black, White>>, the first on a tie.
\* r = g = b, and both entries have the same alpha, so the grey channel decides.
Convert(c) == IF sqDiff(c.Y, Black.Y) <= sqDiff(c.Y, White.Y) THEN Black ELSE White

\* BlackWhiteImage(img): a *Converted, which forwards Bounds and converts At
BlackWhiteImage(img) ==
    [img EXCEPT !.type = "Converted",
                !.zero = Convert(img.zero),
                !.pix = [c \in DOMAIN img.pix |-> Convert(img.pix[c])]]

Cols(img) == img.minX..(img.minX + img.w - 1)
Rows(img) == img.minY..(img.minY + img.h - 1)

SetMin(S) == CHOOSE x \in S : \A y \in S : x <= y
SetMax(S) == CHOOSE x \in S : \A y \in S : x >= y

\* image.Rect(x0, y0, x1, y1): the corners are put in order
Rect(x0, y0, x1, y1) ==
    [minX |-> IF x0 > x1 THEN x1 ELSE x0, minY |-> IF y0 > y1 THEN y1 ELSE y0,
     maxX |-> IF x0 > x1 THEN x0 ELSE x1, maxY |-> IF y0 > y1 THEN y0 ELSE y1]

Bounds(img) == Rect(img.minX, img.minY, img.minX + img.w, img.minY + img.h)

Dx(r) == r.maxX - r.minX
Dy(r) == r.maxY - r.minY

\* the columns and the rows of src that hold a black pixel
BlackCols(src) == {x \in Cols(src) : \E y \in Rows(src) : IsBlack(At(src, x, y))}
BlackRows(src) == {y \in Rows(src) : \E x \in Cols(src) : IsBlack(At(src, x, y))}

\* the four scans of BoundingBox: the first column (row) from its side that
\* holds a black pixel, or the fallback when the scan finds none
leftX(src, border) ==
    IF BlackCols(src) = {} THEN src.minX ELSE SetMin(BlackCols(src)) - border

rightX(src, border) ==
    IF BlackCols(src) = {} THEN src.minX + src.w ELSE SetMax(BlackCols(src)) + border

topY(src, border) ==
    IF BlackRows(src) = {} THEN src.minY + src.h ELSE SetMin(BlackRows(src)) - border

bottomY(src, border) ==
    IF BlackRows(src) = {} THEN src.minY + src.h ELSE SetMax(BlackRows(src)) + border

\* a variant of BoundingBox without the + 1 on the right and bottom edges
BoundingBoxNoPlusOne(src, border) ==
    Rect(leftX(src, border), topY(src, border),
         rightX(src, border), bottomY(src, border))

BoundingBox(src, border) ==
    Rect(leftX(src, border), topY(src, border),
         rightX(src, border) + 1, bottomY(src, border) + 1)

\* Scale(src, r): a new image.RGBA with bounds r, each pixel the source pixel
\* at floor(x / r.Dx() * src.Dx()), floor(y / r.Dy() * src.Dy())
Scale(src, r) ==
    [type |-> "RGBA", minX |-> r.minX, minY |-> r.minY, w |-> Dx(r), h |-> Dy(r),
     zero |-> Transparent,
     pix |-> [c \in (r.minX..(r.maxX - 1)) \X (r.minY..(r.maxY - 1)) |->
                 At(src, src.minX + (c[1] * src.w) \div Dx(r),
                         src.minY + (c[2] * src.h) \div Dy(r))]]

\* whether the image's type has a SubImage method: *image.RGBA and
\* *image.Gray do, *Converted declares Bounds, At and ColorModel only
HasSubImage(img) == img.type \in {"RGBA", "Gray"}

\* SubImage(r) of an image that has one: the part of the image inside r
SubImage(img, r) ==
    LET x0 == IF r.minX > img.minX THEN r.minX ELSE img.minX
        y0 == IF r.minY > img.minY THEN r.minY ELSE img.minY
        x1 == IF r.maxX < img.minX + img.w THEN r.maxX ELSE img.minX + img.w
        y1 == IF r.maxY < img.minY + img.h THEN r.maxY ELSE img.minY + img.h
    IN IF x0 >= x1 \/ y0 >= y1
       THEN [img EXCEPT !.minX = 0, !.minY = 0, !.w = 0, !.h = 0, !.pix = <<>>]
       ELSE [img EXCEPT !.minX = x0, !.minY = y0, !.w = x1 - x0, !.h = y1 - y0,
                        !.pix = [c \in (x0..(x1 - 1)) \X (y0..(y1 - 1)) |-> img.pix[c]]]

\* int(MinBoundingBoxPercent * float64(d)): the product truncated
MinBoxSide(d) == (MinBoundingBoxPercent * d) \div 100

\* Tile.reduce: [status, gate, bbox, Reduced].  gate is the test that decides
\* whether the bounding box is applied; applying it asserts that src has a
\* SubImage method, and a failed type assertion panics.
reduce(img, border) ==
    LET targetRect == Rect(0, 0, TileTargetWidth, TileTargetHeight)
        src == BlackWhiteImage(img)
        bbox == BoundingBox(src, border)
        gate == /\ Dx(bbox) >= MinBoxSide(Dx(Bounds(img)))
                /\ Dy(bbox) >= MinBoxSide(Dy(Bounds(img)))
        bounded == IF gate THEN SubImage(src, bbox) ELSE src
        Reduced == Scale(bounded, targetRect)
    IN IF Dx(targetRect) # TileTargetWidth \/ Dy(targetRect) # TileTargetHeight
       THEN [status |-> "fatal", gate |-> FALSE, bbox |-> bbox, Reduced |-> NoTile]
       ELSE IF gate /\ ~HasSubImage(src)
       THEN [status |-> "panic", gate |-> gate, bbox |-> bbox, Reduced |-> NoTile]
       ELSE IF Reduced.w # TileTargetWidth \/ Reduced.h # TileTargetHeight
       THEN [status |-> "fatal", gate |-> gate, bbox |-> bbox, Reduced |-> Reduced]
       ELSE [status |-> "ok", gate |-> gate, bbox |-> bbox, Reduced |-> Reduced]

\* ----------------------------------------------------------------- network
\* sigmoid(x) = 1 / (1 + e^-x), by the piecewise-linear approximation with
\* breakpoints at |x| = 1, 2.375 and 5; it is 1/2 at 0, monotone, symmetric
\* about 1/2 and reaches 1 for large x, as the float64 result does
sigmoid(x) ==
    LET ax == Abs(x)
        y == IF ax >= 5 * Unit THEN Unit
             ELSE IF 8 * ax >= 19 * Unit THEN ax \div 32 + (27 * Unit) \div 32
             ELSE IF ax >= Unit THEN ax \div 8 + (5 * Unit) \div 8
             ELSE ax \div 4 + Unit \div 2
    IN IF x >= 0 THEN y ELSE Unit - y

\* round(f): 0 when |f| < 0.5, else f + copysign(0.5, f) truncated to an int
round(f) ==
    IF 2 * Abs(f) < Unit THEN 0
    ELSE IF f >= 0 THEN (2 * f + Unit) \div (2 * Unit)
    ELSE -((2 * (-f) + Unit) \div (2 * Unit))

\* rand.Float64(): the k-th draw of the source seeded with `seed`, in [0, 1)
RandFloat64(seed, k) == ((seed * 1103 + k * 2719 + 12345) * 31) % Unit

assignRandomWeights(net, seed) ==
    [net EXCEPT
        !.InputWeights =
            [i \in 1..net.NumInputs |->
                [j \in 1..net.HiddenCount |->
                    RandFloat64(seed, (i - 1) * net.HiddenCount + j)
                        \div (net.NumInputs * net.HiddenCount)]],
        !.OutputWeights =
            [i \in 1..net.HiddenCount |->
                [j \in 1..net.NumOutputs |->
                    RandFloat64(seed, net.NumInputs * net.HiddenCount
                                      + (i - 1) * net.NumOutputs + j)
                        \div (net.HiddenCount * net.NumOutputs)]]]

NewNetwork(w, h, seed) ==
    LET numInputs == w * h
        hiddenCount == numInputs + NumOutputs
    IN assignRandomWeights(
        [NumInputs |-> numInputs,
         HiddenCount |-> hiddenCount,
         NumOutputs |-> NumOutputs,
         tileWidth |-> w,
         tileHeight |-> h,
         InputValues |-> [i \in 1..numInputs |-> 0],
         OutputValues |-> [i \in 1..NumOutputs |-> 0],
         OutputErrors |-> [i \in 1..NumOutputs |-> 0],
         HiddenOutputs |-> [i \in 1..NumOutputs |-> 0],
         HiddenErrors |-> [i \in 1..hiddenCount |-> 0],
         InputWeights |-> <<>>,
         OutputWeights |-> <<>>], seed)

\* assignInputs: [fatal, net].  The first check ends the process before any
\* input is written; the loop reads tileWidth x tileHeight pixels starting at
\* the image's min corner; the second check compares the count with NumInputs.
assignInputs(net, img) ==
    IF img.w > net.tileWidth \/ img.h > net.tileHeight
    THEN [fatal |-> TRUE, net |-> net]
    ELSE LET count == net.tileWidth * net.tileHeight
             bit(i) == pixelToBit(At(img,
                                     img.minX + ((i - 1) % net.tileWidth),
                                     img.minY + ((i - 1) \div net.tileWidth)))
             written == [i \in 1..Len(net.InputValues) |->
                            IF i <= count THEN bit(i) ELSE net.InputValues[i]]
         IN [fatal |-> count # net.NumInputs,
             net |-> [net EXCEPT !.InputValues = written]]

calculateHiddenOutputs(net) ==
    [net EXCEPT !.HiddenOutputs =
        [i \in 1..Len(net.HiddenOutputs) |->
            sigmoid(SeqSum([j \in 1..Len(net.InputValues) |->
                               net.InputValues[j] * net.InputWeights[j][i]]))]]

calculateFinalOutputs(net) ==
    [net EXCEPT !.OutputValues =
        [i \in 1..net.NumOutputs |->
            sigmoid(SeqSum([j \in 1..Len(net.HiddenOutputs) |->
                               Mul(net.HiddenOutputs[j], net.OutputWeights[j][i])]))]]

\* strconv's base-2 digits of c >= 0, most significant first
RECURSIVE Digits(_)
Digits(c) == IF c < 2 THEN <<c>> ELSE Append(Digits(c \div 2), c % 2)

\* left-pad s with zeros to `width` characters; a longer s is left as it is
RECURSIVE ZeroPad(_, _)
ZeroPad(s, width) == IF Len(s) >= width THEN s ELSE ZeroPad(<<0>> \o s, width)

\* a variant of FormatBinary that leaves the zero padding out ("%b")
FormatBinaryUnpadded(codePoint, width) ==
    IF codePoint < 0 THEN <<"-">> \o Digits(-codePoint) ELSE Digits(codePoint)

\* fmt.Sprintf("%0<width>b", codePoint): the characters of the string, a
\* digit as 0 or 1 and the sign of a negative number as "-"
FormatBinary(codePoint, width) ==
    IF codePoint < 0
    THEN <<"-">> \o ZeroPad(Digits(-codePoint), width - 1)
    ELSE ZeroPad(Digits(codePoint), width)

\* runeToArrayOfInts: [panic, bits].  result has NumOutputs entries and
\* result[i] is written for every character of the string: a string longer
\* than NumOutputs indexes past the end of result.
runeToArrayOfInts(net, r) ==
    LET binaryString == FormatBinary(r, net.NumOutputs)
    IN IF Len(binaryString) > net.NumOutputs
       THEN [panic |-> TRUE, bits |-> <<>>]
       ELSE [panic |-> FALSE,
             bits |-> [i \in 1..net.NumOutputs |->
                          IF i > Len(binaryString) THEN 0
                          ELSE IF binaryString[i] = 0 THEN 0 ELSE 1]]

\* calculateOutputErrors: [panic, net]
calculateOutputErrors(net, r) ==
    LET enc == runeToArrayOfInts(net, r)
    IN IF enc.panic THEN [panic |-> TRUE, net |-> net]
       ELSE [panic |-> FALSE,
             net |-> [net EXCEPT !.OutputErrors =
                 [i \in 1..Len(net.OutputErrors) |->
                     IF i > Len(enc.bits) THEN net.OutputErrors[i]
                     ELSE Mul(Mul(enc.bits[i] * Unit - net.OutputValues[i],
                                  Unit - net.OutputValues[i]),
                              net.OutputValues[i])]]]

calculateHiddenErrors(net) ==
    [net EXCEPT !.HiddenErrors =
        [i \in 1..Len(net.HiddenErrors) |->
            IF i > Len(net.HiddenOutputs) THEN net.HiddenErrors[i]
            ELSE Mul(Mul(net.HiddenOutputs[i], Unit - net.HiddenOutputs[i]),
                     SeqSum([j \in 1..Len(net.OutputErrors) |->
                                Mul(net.OutputErrors[j], net.OutputWeights[i][j])]))]]

adjustOutputWeights(net) ==
    [net EXCEPT !.OutputWeights =
        [i \in 1..Len(net.OutputWeights) |->
            IF i > Len(net.HiddenOutputs) THEN net.OutputWeights[i]
            ELSE [j \in 1..net.NumOutputs |->
                     net.OutputWeights[i][j]
                         + Mul(net.OutputErrors[j], net.HiddenOutputs[i])]]]

adjustInputWeights(net) ==
    [net EXCEPT !.InputWeights =
        [i \in 1..net.NumInputs |->
            [j \in 1..net.HiddenCount |->
                net.InputWeights[i][j] + net.HiddenErrors[j] * net.InputValues[i]]]]

\* the feed-forward half shared by Train and Recognize: [fatal, net]
forward(net, img) ==
    LET a == assignInputs(net, img)
    IN IF a.fatal THEN a
       ELSE [fatal |-> FALSE,
             net |-> calculateFinalOutputs(calculateHiddenOutputs(a.net))]

\* a variant of backward that adjusts the output weights before it
\* calculates the hidden errors
backwardAdjustsFirst(net) ==
    adjustInputWeights(calculateHiddenErrors(adjustOutputWeights(net)))

\* the back-propagation half of Train, after calculateOutputErrors
backward(net) ==
    adjustInputWeights(adjustOutputWeights(calculateHiddenErrors(net)))

\* Train: [status, net]
TrainNet(net, img, r) ==
    LET f == forward(net, img)
        e == calculateOutputErrors(f.net, r)
    IN IF f.fatal THEN [status |-> "fatal", net |-> f.net]
       ELSE IF e.panic THEN [status |-> "panic", net |-> e.net]
       ELSE [status |-> "ok", net |-> backward(e.net)]

\* strconv.ParseInt(bitstring, 2, bitSize): [err, value].  The characters are
\* those strconv.Itoa wrote, one number per output.
RECURSIVE BaseTwo(_)
BaseTwo(s) == IF s = <<>> THEN 0 ELSE 2 * BaseTwo(SubSeq(s, 1, Len(s) - 1)) + s[Len(s)]

ParseInt(bitstring, bitSize) ==
    IF \/ bitstring = <<>>
       \/ \E i \in 1..Len(bitstring) : bitstring[i] \notin {0, 1}
       \/ Len(bitstring) > bitSize - 1
    THEN [err |-> TRUE, value |-> 0]
    ELSE [err |-> FALSE, value |-> BaseTwo(bitstring)]

\* the quantising tail of Recognize: [err, value]
Quantize(outputValues) ==
    ParseInt([i \in 1..Len(outputValues) |-> round(outputValues[i])], 16)

\* a variant of Recognize that also adjusts the output weights
RecognizeNetAdjusts(net, img) ==
    LET f == forward(net, img)
        q == Quantize(f.net.OutputValues)
    IN IF f.fatal \/ q.err THEN [status |-> "fatal", net |-> f.net, rune |-> -1]
       ELSE [status |-> "ok", net |-> adjustOutputWeights(f.net), rune |-> q.value]

\* Recognize: [status, net, rune]
RecognizeNet(net, img) ==
    LET f == forward(net, img)
        q == Quantize(f.net.OutputValues)
    IN IF f.fatal \/ q.err THEN [status |-> "fatal", net |-> f.net, rune |-> -1]
       ELSE [status |-> "ok", net |-> f.net, rune |-> q.value]

\* gob encodes the exported fields of the struct and no other
Exported == {"NumInputs", "NumOutputs", "HiddenCount", "InputValues",
             "InputWeights", "HiddenOutputs", "OutputWeights", "OutputValues",
             "OutputErrors", "HiddenErrors"}

GobEncode(net) == [f \in Exported |-> net[f]]

\* decoding into `var result Network`: the fields the stream does not carry
\* keep their zero value
GobDecode(bytes) ==
    [f \in Exported \cup {"tileWidth", "tileHeight"} |->
        IF f \in Exported THEN bytes[f] ELSE 0]

\* ------------------------------------------------------- inputs of the run
\* the images handed to Train and Recognize: an all-black image.Gray, an
\* all-white image.RGBA and an image.RGBA sub-image with a chequered pattern
Kinds == {"black", "white", "checker"}

KindColour(k, x, y) ==
    CASE k = "black" -> Black
      [] k = "white" -> White
      [] k = "checker" -> IF (x + y) % 2 = 0 THEN Black ELSE Light

Image(k, w, h) ==
    LET o == IF k = "checker" THEN 1 ELSE 0
    IN [type |-> IF k = "black" THEN "Gray" ELSE "RGBA",
        minX |-> o, minY |-> o, w |-> w, h |-> h,
        zero |-> IF k = "black" THEN Black ELSE Transparent,
        pix |-> [c \in (o..(o + w - 1)) \X (o..(o + h - 1)) |->
                    KindColour(k, c[1], c[2])]]

\* up to one pixel larger than the largest network tile
NetImages ==
    {Image(k, w, h) : k \in Kinds, w \in 1..(MaxTile + 1), h \in 1..(MaxTile + 1)}

TrainRunes == {65, 256}

Targets == {"n", "restored"}

NetOf(t) == IF t = "n" THEN n ELSE restored

\* ---------------------------------------------------------------- actions
Train(t, img, r) ==
    /\ status = "ok"
    /\ calls < MaxCalls
    /\ NetOf(t) # NoNet
    /\ LET out == TrainNet(NetOf(t), img, r)
       IN /\ status' = out.status
          /\ IF t = "n" THEN n' = out.net /\ UNCHANGED restored
                        ELSE restored' = out.net /\ UNCHANGED n
    /\ call' = [op |-> "Train", target |-> t, w |-> img.w, h |-> img.h, r |-> r]
    /\ calls' = calls + 1
    /\ UNCHANGED <<file, result, codec, tile>>

Recognize(t, img) ==
    /\ status = "ok"
    /\ calls < MaxCalls
    /\ NetOf(t) # NoNet
    /\ LET out == RecognizeNet(NetOf(t), img)
       IN /\ status' = out.status
          /\ result' = out.rune
          /\ IF t = "n" THEN n' = out.net /\ UNCHANGED restored
                        ELSE restored' = out.net /\ UNCHANGED n
    /\ call' = [op |-> "Recognize", target |-> t, w |-> img.w, h |-> img.h]
    /\ calls' = calls + 1
    /\ UNCHANGED <<file, codec, tile>>

Save ==
    /\ status = "ok"
    /\ calls < MaxCalls
    /\ file' = GobEncode(n)
    /\ call' = [op |-> "Save"]
    /\ calls' = calls + 1
    /\ UNCHANGED <<n, restored, status, result, codec, tile>>

RestoreNetwork ==
    /\ status = "ok"
    /\ calls < MaxCalls
    /\ file # NoFile
    /\ restored' = GobDecode(file)
    /\ call' = [op |-> "RestoreNetwork"]
    /\ calls' = calls + 1
    /\ UNCHANGED <<n, file, status, result, codec, tile>>

\* an encode / decode round of the output code: runeToArrayOfInts, then the
\* quantising tail of Recognize on exactly those bits as output values
Encode ==
    /\ codec.stage = "rune"
    /\ LET enc == runeToArrayOfInts(n, codec.r)
       IN codec' = [stage |-> "encoded", r |-> codec.r,
                    panic |-> enc.panic, bits |-> enc.bits]
    /\ UNCHANGED <<netVars, tile>>

Decode ==
    /\ codec.stage = "encoded"
    /\ ~codec.panic
    /\ LET q == Quantize([i \in 1..Len(codec.bits) |-> codec.bits[i] * Unit])
       IN codec' = [stage |-> "decoded", r |-> codec.r, bits |-> codec.bits,
                    err |-> q.err, value |-> q.value]
    /\ UNCHANGED <<netVars, tile>>

\* the tiles handed to NewTile and BoundingBox: white image.RGBA sub-images
\* with up to MaxInk pixels painted, all black or all dark grey.  A pixel is
\* named by its row-major index in the tile.
RECURSIVE InkSets(_, _)
InkSets(pixels, k) ==
    IF k = 0 \/ pixels = 0 THEN {{}}
    ELSE InkSets(pixels - 1, k)
             \cup {T \cup {pixels} : T \in InkSets(pixels - 1, k - 1)}

TileOrigin == <<2, 1>>

TileImage(w, h, ink, colour) ==
    LET x0 == TileOrigin[1]
        y0 == TileOrigin[2]
    IN [type |-> "RGBA", minX |-> x0, minY |-> y0, w |-> w, h |-> h,
        zero |-> Transparent,
        pix |-> [c \in (x0..(x0 + w - 1)) \X (y0..(y0 + h - 1)) |->
                    IF (c[2] - y0) * w + (c[1] - x0) + 1 \in ink
                    THEN colour ELSE White]]

NewTile ==
    /\ tile.stage = "new"
    /\ LET t == reduce(tile.img, 0)
       IN tile' = [stage |-> "NewTile", img |-> tile.img, status |-> t.status,
                   gate |-> t.gate, bbox |-> t.bbox, Reduced |-> t.Reduced]
    /\ UNCHANGED <<netVars, codec>>

CallBoundingBox(border) ==
    /\ tile.stage = "new"
    /\ tile' = [stage |-> "BoundingBox", img |-> tile.img, border |-> border,
                bbox |-> BoundingBox(tile.img, border)]
    /\ UNCHANGED <<netVars, codec>>

Init ==
    /\ \E w \in 1..MaxTile, h \in 1..MaxTile, seed \in 1..MaxSeed :
          n = NewNetwork(w, h, seed)
    /\ file = NoFile
    /\ restored = NoNet
    /\ status = "ok"
    /\ call = [op |-> "NewNetwork"]
    /\ calls = 0
    /\ result = -1
    /\ codec = NoCodec
    /\ tile = NoTile

Next ==
    \/ \E t \in Targets, img \in NetImages, r \in TrainRunes : Train(t, img, r)
    \/ \E t \in Targets, img \in NetImages : Recognize(t, img)
    \/ Save
    \/ RestoreNetwork

Spec == Init /\ [][Next]_vars

\* the output code on its own
InitCodec ==
    /\ n = NewNetwork(1, 1, 1)
    /\ file = NoFile
    /\ restored = NoNet
    /\ status = "ok"
    /\ call = [op |-> "NewNetwork"]
    /\ calls = 0
    /\ result = -1
    /\ codec \in {[stage |-> "rune", r |-> c] : c \in 0..MaxRune}
    /\ tile = NoTile

NextCodec == Encode \/ Decode

SpecCodec == InitCodec /\ [][NextCodec]_vars

\* the tile normaliser on its own
InitTile ==
    /\ n = NoNet
    /\ file = NoFile
    /\ restored = NoNet
    /\ status = "ok"
    /\ call = [op |-> "none"]
    /\ calls = 0
    /\ result = -1
    /\ codec = NoCodec
    /\ \E w \in 1..MaxW, h \in 1..MaxH, colour \in {Black, Dark} :
          \E ink \in InkSets(w * h, MaxInk) :
              tile = [stage |-> "new", img |-> TileImage(w, h, ink, colour)]

NextTile == NewTile \/ \E border \in 0..MaxBorder : CallBoundingBox(border)

SpecTile == InitTile /\ [][NextTile]_vars
\* ------------------------------------------------------------------ claims
RECURSIVE Pow2(_)
Pow2(k) == IF k = 0 THEN 1 ELSE 2 * Pow2(k - 1)

\* C1: every code point below 2^NumOutputs is encoded without a failure
\* into NumOutputs bits, and decoding exactly those bits the way Recognize
\* does gives the code point back.
C1_EncodeDecodeIdentity ==
    /\ (codec.stage = "encoded" /\ codec.r < Pow2(NumOutputs))
          => ~codec.panic /\ Len(codec.bits) = NumOutputs
    /\ (codec.stage = "decoded" /\ codec.r < Pow2(NumOutputs))
          => ~codec.err /\ codec.value = codec.r

C1_Witness ==
    /\ codec.stage = "decoded"
    /\ codec.r = 165
    /\ codec.bits = <<1, 0, 1, 0, 0, 1, 0, 1>>
    /\ codec.value = 165

\* the network as it was when Save wrote the file: gob carries the exported
\* fields, and the tile dimensions never change after NewNetwork
SavedNetwork == [f \in DOMAIN n |-> IF f \in Exported THEN file[f] ELSE n[f]]

\* C2: a restored network, given an image of the tile's size, completes the
\* forward pass and produces the output values the saved network produces.
C2_RestoredForwardMatches ==
    restored # NoNet =>
        \A img \in NetImages :
            (img.w = n.tileWidth /\ img.h = n.tileHeight) =>
                /\ ~forward(restored, img).fatal
                /\ forward(restored, img).net.OutputValues
                       = forward(SavedNetwork, img).net.OutputValues

\* C3: NewTile completes for every tile and its Reduced image is exactly
\* TileTargetWidth x TileTargetHeight pixels.
C3_ReducedAlwaysTargetSize ==
    tile.stage = "NewTile" =>
        /\ tile.status = "ok"
        /\ tile.Reduced.w = TileTargetWidth
        /\ tile.Reduced.h = TileTargetHeight
        /\ Cardinality(DOMAIN tile.Reduced.pix) = TileTargetWidth * TileTargetHeight

\* C4: BoundingBox of an image without a black pixel is the image's bounds,
\* whatever the border.
C4_BlankImageGivesFullBounds ==
    (tile.stage = "BoundingBox" /\ BlackCols(tile.img) = {})
        => tile.bbox = Bounds(tile.img)

\* the black pixels of an image
Foreground(img) == {c \in DOMAIN img.pix : IsBlack(img.pix[c])}

\* C5: with border 0 and at least one black pixel, BoundingBox is the
\* smallest rectangle that holds every black pixel: it holds them all, each
\* of its sides touches one, it lies inside the image, and one black pixel
\* alone gives the 1 x 1 box at that pixel.
C5_MinimalBox ==
    (tile.stage = "BoundingBox" /\ tile.border = 0 /\ Foreground(tile.img) # {}) =>
        LET b == tile.bbox
            fg == Foreground(tile.img)
        IN /\ \A c \in fg : /\ b.minX <= c[1] /\ c[1] < b.maxX
                            /\ b.minY <= c[2] /\ c[2] < b.maxY
           /\ \E c \in fg : c[1] = b.minX
           /\ \E c \in fg : c[1] = b.maxX - 1
           /\ \E c \in fg : c[2] = b.minY
           /\ \E c \in fg : c[2] = b.maxY - 1
           /\ Bounds(tile.img).minX <= b.minX /\ b.maxX <= Bounds(tile.img).maxX
           /\ Bounds(tile.img).minY <= b.minY /\ b.maxY <= Bounds(tile.img).maxY
           /\ \A c \in fg :
                 fg = {c} => b = Rect(c[1], c[2], c[1] + 1, c[2] + 1)

C5_Witness ==
    /\ tile.stage = "BoundingBox"
    /\ tile.border = 0
    /\ Cardinality(Foreground(tile.img)) = 2
    /\ Dx(tile.bbox) = 3
    /\ Dy(tile.bbox) = 2
    /\ tile.bbox.minX > tile.img.minX
    /\ tile.bbox.maxX < tile.img.minX + tile.img.w

\* C6: reduce applies the bounding box exactly when the box is at least a
\* quarter of the tile in width and in height; a foreground spanning 20% of
\* the width is not cropped, one spanning 30% of the width and a quarter of
\* the height is.
C6_GateIsQuarterOfTile ==
    (tile.stage = "NewTile" /\ Foreground(BlackWhiteImage(tile.img)) # {}) =>
        LET W == tile.img.w
            H == tile.img.h
            bw == Dx(tile.bbox)
            bh == Dy(tile.bbox)
        IN /\ tile.gate <=> (4 * bw >= W /\ 4 * bh >= H)
           /\ 5 * bw = W => ~tile.gate
           /\ (10 * bw = 3 * W /\ 4 * bh >= H) => tile.gate

\* what a Recognize call may not write
Kept == {"NumInputs", "NumOutputs", "HiddenCount", "InputWeights",
         "OutputWeights", "OutputErrors", "HiddenErrors", "tileWidth",
         "tileHeight"}

Frame(before, after) ==
    before = NoNet \/ \A f \in Kept : after[f] = before[f]

\* C7: a Recognize call changes no weight and no dimension of any network;
\* it writes InputValues, HiddenOutputs and OutputValues only.
C7_RecognizeKeepsWeights ==
    [][call'.op = "Recognize"
          => Frame(n, n') /\ Frame(restored, restored') /\ file' = file]_vars

C7_Witness ==
    /\ call.op = "Recognize"
    /\ call.target = "n"
    /\ status = "ok"
    /\ result >= 0
    /\ \E i \in 1..Len(n.HiddenErrors) : n.HiddenErrors[i] # 0
    /\ \E i \in 1..Len(n.InputValues) : n.InputValues[i] = 1

\* C8: a Train or Recognize call with an image that differs from the tile
\* in width or height, larger or smaller, ends in the fatal abort of
\* assignInputs.
C8_OnlyTileSizedImagesAccepted ==
    (/\ call.op \in {"Train", "Recognize"}
     /\ \/ call.w # NetOf(call.target).tileWidth
        \/ call.h # NetOf(call.target).tileHeight)
        => status = "fatal"

\* bit i (1 = most significant) of the NumOutputs-bit code of r
TargetBit(r, i) == (r \div Pow2(NumOutputs - i)) % 2

\* C9: a Train call that completes runs the forward pass on the weights as
\* they were before the call, then the output errors, then the hidden errors
\* from the output weights as they were before the call, then the two
\* weight updates, the input weights from those hidden errors.
C9_TrainOrder ==
    [][(call'.op = "Train" /\ call'.target = "n" /\ status' = "ok") =>
        LET in == n'.InputValues
            ho == n'.HiddenOutputs
            ov == n'.OutputValues
            oe == n'.OutputErrors
            he == n'.HiddenErrors
        IN /\ \A i \in 1..Len(ho) :
                 ho[i] = sigmoid(SeqSum([j \in 1..Len(in) |->
                                            in[j] * n.InputWeights[j][i]]))
           /\ \A k \in 1..NumOutputs :
                 ov[k] = sigmoid(SeqSum([i \in 1..Len(ho) |->
                                            Mul(ho[i], n.OutputWeights[i][k])]))
           /\ \A k \in 1..NumOutputs :
                 oe[k] = Mul(Mul(TargetBit(call'.r, k) * Unit - ov[k], Unit - ov[k]),
                             ov[k])
           /\ \A i \in 1..Len(ho) :
                 he[i] = Mul(Mul(ho[i], Unit - ho[i]),
                             SeqSum([k \in 1..NumOutputs |->
                                        Mul(oe[k], n.OutputWeights[i][k])]))
           /\ \A i \in 1..Len(ho) : \A k \in 1..NumOutputs :
                 n'.OutputWeights[i][k] = n.OutputWeights[i][k] + Mul(oe[k], ho[i])
           /\ \A j \in 1..n.NumInputs : \A i \in 1..n.HiddenCount :
                 n'.InputWeights[j][i] = n.InputWeights[j][i] + he[i] * in[j]]_vars

C9_Witness ==
    /\ call.op = "Train"
    /\ call.target = "n"
    /\ status = "ok"
    /\ calls = 2
    /\ \E j \in 1..Len(n.InputValues) : n.InputValues[j] = 1
    /\ \E i \in 1..Len(n.HiddenOutputs) :
          /\ n.HiddenErrors[i] # 0
          /\ \E k \in 1..NumOutputs : Mul(n.OutputErrors[k], n.HiddenOutputs[i]) # 0

\* C10: the hidden layer has HiddenCount units: HiddenOutputs holds one
\* activation per hidden unit, so every column of InputWeights and every row
\* of OutputWeights has its unit in the forward pass and in Train.
C10_EveryHiddenUnitHasAnOutput ==
    /\ Len(n.HiddenOutputs) = n.HiddenCount
    /\ \A i \in 1..Len(n.OutputWeights) : i \in DOMAIN n.HiddenOutputs
    /\ \A j \in 1..Len(n.InputWeights) :
          \A i \in 1..Len(n.InputWeights[j]) : i \in DOMAIN n.HiddenOutputs

\* C11: the target of a Train call always has NumOutputs bits, those of the
\* code point modulo 2^NumOutputs: a Train call whose image is accepted
\* completes, for a code point of 2^NumOutputs or more too, and its output
\* errors are those of that target.
C11_TrainEncodesModulo ==
    (call.op = "Train" /\ call.target = "n" /\ status # "fatal") =>
        /\ status = "ok"
        /\ Len(runeToArrayOfInts(n, call.r).bits) = NumOutputs
        /\ \A k \in 1..NumOutputs :
              n.OutputErrors[k]
                  = Mul(Mul(TargetBit(call.r % Pow2(NumOutputs), k) * Unit
                                - n.OutputValues[k],
                            Unit - n.OutputValues[k]),
                        n.OutputValues[k])
====
